---- MODULE Spec2Model ----
(***************************************************************************)
(* Model of the BadgerDB buffer manager (src/buffer.cpp): a fixed pool of  *)
(* frames, a descriptor per frame, a hash index from (file, page) to frame *)
(* and a clock hand.  Every public operation of BufMgr is one action; the  *)
(* clock sweep allocBuf is a recursive operator the actions call.  A      *)
(* second specification, SpecSweep, follows the loop of allocBuf one       *)
(* iteration at a time.                                                    *)
(***************************************************************************)
EXTENDS Integers, Sequences, FiniteSets, TLC

\* ---- the pool and its callers ----
\* The pool under analysis is BufMgr(2).  Its callers use two files, the
\* first able to issue page numbers 1 and 2 and the second page number 1, so
\* that three pages compete for two frames; readPage and disposePage are
\* called for pages that exist in their file.
NumBufs == 2        \* frames in the pool (the constructor's bufs)
MaxPin == 3         \* callers hold at most this many pins on one frame
FilePages == <<2, 1>>   \* per file, the highest page number it can issue

Frames == 0 .. (NumBufs - 1)
Files == 1 .. Len(FilePages)
Pages == UNION {1 .. FilePages[f] : f \in Files}
PageIds == {id \in Files \X Pages : id[2] <= FilePages[id[1]]}

NoFrame == -1       \* "no frame": lookup miss, handle left untouched
NoFile == 0         \* the default-constructed File of a cleared descriptor
NoPage == 0         \* Page::INVALID_NUMBER

VARIABLES
    bufDescTable,   \* [Frames -> descriptor]
    bufPool,        \* [Frames -> page number of the Page object held]
    hashTable,      \* [PageIds -> Frames \cup {NoFrame}]
    clockHand,      \* the clock cursor
    pageStore,      \* pages that exist on disk, a subset of PageIds
    last,           \* what the last call did: operation, outcome, I/O
    obs,            \* history: the page whose successive reads are observed
    sweep           \* allocBuf's locals while its loop is followed step by step

vars == <<bufDescTable, bufPool, hashTable, clockHand, pageStore, last, obs,
          sweep>>

\* ---- BufDesc ----
FreeDesc ==
    [valid |-> FALSE, refbit |-> FALSE, dirty |-> FALSE, pinCnt |-> 0,
     file |-> NoFile, pageNo |-> NoPage]

\* BufDesc::clear
Clear(d) == FreeDesc

\* BufDesc::Set
Set(file, pageNo) ==
    [valid |-> TRUE, refbit |-> TRUE, dirty |-> FALSE, pinCnt |-> 1,
     file |-> file, pageNo |-> pageNo]

\* ---- BufHashTbl ----
HashLookup(h, file, pageNo) == h[<<file, pageNo>>]

HashInsert(h, file, pageNo, frameNo) == [h EXCEPT ![<<file, pageNo>>] = frameNo]

HashRemove(h, file, pageNo) == [h EXCEPT ![<<file, pageNo>>] = NoFrame]

\* ---- Page Store (File) calls, as the I/O trace records them ----
IoWrite(file, pageNo) == <<"write", file, pageNo>>
IoRead(file, pageNo) == <<"read", file, pageNo>>
IoAlloc(file, pageNo) == <<"alloc", file, pageNo>>
IoDelete(file, pageNo) == <<"delete", file, pageNo>>

\* ---- BufMgr::advanceClock ----
advanceClock(c) == (c + 1) % NumBufs

\* ---- BufMgr::allocBuf ----
\* The victim branch (refbit clear, pinCnt = 0): a dirty victim is written,
\* unhashed and cleared; a clean victim is handed out as it is.
EvictVictimUnwritten(d, h, pool, c) ==
    IF d[c].dirty
    THEN [desc |-> [d EXCEPT ![c] = Clear(d[c])],
          hash |-> HashRemove(h, d[c].file, d[c].pageNo),
          io |-> <<>>]
    ELSE [desc |-> d, hash |-> h, io |-> <<>>]

EvictVictim(d, h, pool, c) ==
    IF d[c].dirty
    THEN [desc |-> [d EXCEPT ![c] = Clear(d[c])],
          hash |-> HashRemove(h, d[c].file, d[c].pageNo),
          io |-> <<IoWrite(d[c].file, pool[c])>>]
    ELSE [desc |-> d, hash |-> h, io |-> <<>>]

\* The sweep without the second chance: an unpinned frame is taken whatever
\* its refbit.
RECURSIVE allocBufLoopNoSecondChance(_, _, _, _, _)
allocBufLoopNoSecondChance(d, h, pool, c, frame_count) ==
    IF ~(frame_count <= NumBufs)
    THEN [ok |-> FALSE, frame |-> NoFrame, desc |-> d, hash |-> h, clock |-> c,
          io |-> <<>>]
    ELSE IF d[c].valid = FALSE
    THEN [ok |-> TRUE, frame |-> c, desc |-> d, hash |-> h, clock |-> c,
          io |-> <<>>]
    ELSE IF d[c].pinCnt = 0
    THEN LET e == EvictVictim(d, h, pool, c)
         IN [ok |-> TRUE, frame |-> c, desc |-> e.desc, hash |-> e.hash,
             clock |-> c, io |-> e.io]
    ELSE allocBufLoopNoSecondChance([d EXCEPT ![c].refbit = FALSE], h, pool,
                                    advanceClock(c), frame_count + 1)

RECURSIVE allocBufLoop(_, _, _, _, _)
allocBufLoop(d, h, pool, c, frame_count) ==
    IF ~(frame_count <= NumBufs)
    THEN [ok |-> FALSE, frame |-> NoFrame, desc |-> d, hash |-> h, clock |-> c,
          io |-> <<>>]
    ELSE IF d[c].valid = FALSE
    THEN [ok |-> TRUE, frame |-> c, desc |-> d, hash |-> h, clock |-> c,
          io |-> <<>>]
    ELSE IF d[c].refbit
    THEN allocBufLoop([d EXCEPT ![c].refbit = FALSE], h, pool,
                      advanceClock(c), frame_count + 1)
    ELSE IF d[c].pinCnt = 0
    THEN LET e == EvictVictim(d, h, pool, c)
         IN [ok |-> TRUE, frame |-> c, desc |-> e.desc, hash |-> e.hash,
             clock |-> c, io |-> e.io]
    ELSE allocBufLoop(d, h, pool, advanceClock(c), frame_count + 1)

allocBuf(d, h, pool, c) == allocBufLoop(d, h, pool, c, 0)

\* ---- the record of the last call ----
\* op, file, page, dirty: the call and its arguments; status: "returned" or the
\* exception that left the call; frame: the frame of the handle the call
\* stored in its page pointer (NoFrame when it stored none; for unPinPage,
\* flushFile and disposePage the frame the call stopped at); io: the Page
\* Store calls the call made, in order.
Call(op, file, pageNo, dirty, status, frame, io) ==
    [op |-> op, file |-> file, page |-> pageNo, dirty |-> dirty,
     status |-> status, frame |-> frame, io |-> io]

\* Descriptor desc is valid and holds page k.
HoldsDesc(desc, k) == desc.valid /\ desc.file = k[1] /\ desc.pageNo = k[2]

\* ---- history of successive reads of one page ----
NoObs == [file |-> NoFile, page |-> NoPage, frame |-> NoFrame, reads |-> 0,
          same |-> TRUE]

\* Somebody holds a pin on page (file, pageNo).
HeldPinned(d, file, pageNo) ==
    \E f \in Frames : /\ d[f].valid
                      /\ d[f].file = file
                      /\ d[f].pageNo = pageNo
                      /\ d[f].pinCnt > 0

\* o: the observation so far; d: the descriptors before the call; l: the
\* record of the call; d2: the descriptors after it.  The observation starts
\* at a readPage that returns a handle for a page nobody held pinned, goes on
\* through reads and allocations of other pages, completes at the next
\* readPage of the observed page and ends at any other call.
Observe(o, d, l, d2) ==
    LET handle == l.op = "readPage" /\ l.frame # NoFrame
        mine == l.file = o.file /\ l.page = o.page
    IN IF o.reads = 1 /\ handle /\ mine
       THEN [o EXCEPT !.reads = 2, !.same = (l.frame = o.frame), !.frame = l.frame]
       ELSE IF o.reads = 1 /\ l.op \in {"readPage", "allocPage"} /\ ~mine
       THEN o
       ELSE IF handle /\ ~HeldPinned(d, l.file, l.page)
       THEN [file |-> l.file, page |-> l.page, frame |-> l.frame, reads |-> 1,
             same |-> TRUE]
       ELSE NoObs

\* ---- allocBuf's locals ----
\* pc: "idle" outside allocBuf, "loop" inside its while loop, "returned" or
\* "exceeded" once it has left; frame_count: the local counter; frame: the
\* out-parameter; io: the Page Store calls made so far.
NoSweep == [pc |-> "idle", frame_count |-> 0, frame |-> NoFrame, io |-> <<>>]

\* ---- BufMgr::BufMgr ----
Init ==
    /\ bufDescTable = [f \in Frames |-> FreeDesc]
    /\ bufPool = [f \in Frames |-> NoPage]
    /\ hashTable = [k \in PageIds |-> NoFrame]
    /\ clockHand = NumBufs - 1
    /\ pageStore \in SUBSET PageIds
    /\ obs = NoObs
    /\ sweep = NoSweep
    /\ last = Call("init", NoFile, NoPage, FALSE, "returned", NoFrame, <<>>)

\* ---- BufMgr::readPage ----
\* readPage without the hashTable.insert of its miss path.
readPageUnhashed(file, pageNo) ==
    /\ <<file, pageNo>> \in pageStore
    /\ LET frameNo == HashLookup(hashTable, file, pageNo)
       IN IF frameNo # NoFrame
          THEN /\ bufDescTable[frameNo].pinCnt < MaxPin
               /\ bufDescTable' = [bufDescTable EXCEPT ![frameNo].refbit = TRUE,
                                                       ![frameNo].pinCnt = @ + 1]
               /\ last' = Call("readPage", file, pageNo, FALSE, "returned", frameNo, <<>>)
               /\ UNCHANGED <<bufPool, hashTable, clockHand, pageStore>>
          ELSE LET a == allocBuf(bufDescTable, hashTable, bufPool, clockHand)
               IN IF a.ok
                  THEN /\ bufPool' = [bufPool EXCEPT ![a.frame] = pageNo]
                       /\ hashTable' = a.hash
                       /\ bufDescTable' = [a.desc EXCEPT ![a.frame] = Set(file, pageNo)]
                       /\ clockHand' = a.clock
                       /\ last' = Call("readPage", file, pageNo, FALSE, "returned", a.frame,
                                       a.io \o <<IoRead(file, pageNo)>>)
                       /\ UNCHANGED pageStore
                  ELSE /\ bufDescTable' = a.desc
                       /\ hashTable' = a.hash
                       /\ clockHand' = a.clock
                       /\ last' = Call("readPage", file, pageNo, FALSE, "returned", NoFrame, a.io)
                       /\ UNCHANGED <<bufPool, pageStore>>

readPage(file, pageNo) ==
    /\ <<file, pageNo>> \in pageStore
    /\ LET frameNo == HashLookup(hashTable, file, pageNo)
       IN IF frameNo # NoFrame
          THEN /\ bufDescTable[frameNo].pinCnt < MaxPin
               /\ bufDescTable' = [bufDescTable EXCEPT ![frameNo].refbit = TRUE,
                                                       ![frameNo].pinCnt = @ + 1]
               /\ last' = Call("readPage", file, pageNo, FALSE, "returned", frameNo, <<>>)
               /\ UNCHANGED <<bufPool, hashTable, clockHand, pageStore>>
          ELSE LET a == allocBuf(bufDescTable, hashTable, bufPool, clockHand)
               IN IF a.ok
                  THEN /\ bufPool' = [bufPool EXCEPT ![a.frame] = pageNo]
                       /\ hashTable' = HashInsert(a.hash, file, pageNo, a.frame)
                       /\ bufDescTable' = [a.desc EXCEPT ![a.frame] = Set(file, pageNo)]
                       /\ clockHand' = a.clock
                       /\ last' = Call("readPage", file, pageNo, FALSE, "returned", a.frame,
                                       a.io \o <<IoRead(file, pageNo)>>)
                       /\ UNCHANGED pageStore
                  ELSE \* BufferExceededException is caught and logged
                       /\ bufDescTable' = a.desc
                       /\ hashTable' = a.hash
                       /\ clockHand' = a.clock
                       /\ last' = Call("readPage", file, pageNo, FALSE, "returned", NoFrame, a.io)
                       /\ UNCHANGED <<bufPool, pageStore>>

\* ---- BufMgr::unPinPage ----
UnPinDescOverwrite(d, dirty) ==
    [d EXCEPT !.pinCnt = @ - 1, !.dirty = dirty]

UnPinDesc(d, dirty) ==
    [d EXCEPT !.pinCnt = @ - 1, !.dirty = IF dirty THEN TRUE ELSE @]

unPinPage(file, pageNo, dirty) ==
    /\ <<file, pageNo>> \in PageIds
    /\ LET frameNo == HashLookup(hashTable, file, pageNo)
       IN IF frameNo = NoFrame
          THEN \* HashNotFoundException is caught and logged
               /\ last' = Call("unPinPage", file, pageNo, dirty, "returned", NoFrame, <<>>)
               /\ UNCHANGED bufDescTable
          ELSE IF bufDescTable[frameNo].pinCnt = 0
          THEN /\ last' = Call("unPinPage", file, pageNo, dirty, "PageNotPinned", frameNo, <<>>)
               /\ UNCHANGED bufDescTable
          ELSE /\ bufDescTable' = [bufDescTable EXCEPT
                                     ![frameNo] = UnPinDesc(@, dirty)]
               /\ last' = Call("unPinPage", file, pageNo, dirty, "returned", frameNo, <<>>)
    /\ UNCHANGED <<bufPool, hashTable, clockHand, pageStore>>

\* ---- BufMgr::allocPage ----
\* allocPage without its hashTable.insert.
allocPageUnhashed(file) ==
    LET a == allocBuf(bufDescTable, hashTable, bufPool, clockHand)
    IN IF a.ok
       THEN \E pageNo \in Pages :
               /\ <<file, pageNo>> \in PageIds \ pageStore
               /\ pageStore' = pageStore \cup {<<file, pageNo>>}
               /\ bufPool' = [bufPool EXCEPT ![a.frame] = pageNo]
               /\ bufDescTable' = [a.desc EXCEPT ![a.frame] = Set(file, pageNo)]
               /\ hashTable' = a.hash
               /\ clockHand' = a.clock
               /\ last' = Call("allocPage", file, pageNo, FALSE, "returned", a.frame,
                               a.io \o <<IoAlloc(file, pageNo)>>)
       ELSE /\ bufDescTable' = a.desc
            /\ hashTable' = a.hash
            /\ clockHand' = a.clock
            /\ last' = Call("allocPage", file, NoPage, FALSE, "BufferExceeded", NoFrame, a.io)
            /\ UNCHANGED <<bufPool, pageStore>>

allocPage(file) ==
    LET a == allocBuf(bufDescTable, hashTable, bufPool, clockHand)
    IN IF a.ok
       THEN \E pageNo \in Pages :
               /\ <<file, pageNo>> \in PageIds \ pageStore
               /\ pageStore' = pageStore \cup {<<file, pageNo>>}
               /\ bufPool' = [bufPool EXCEPT ![a.frame] = pageNo]
               /\ bufDescTable' = [a.desc EXCEPT ![a.frame] = Set(file, pageNo)]
               /\ hashTable' = HashInsert(a.hash, file, pageNo, a.frame)
               /\ clockHand' = a.clock
               /\ last' = Call("allocPage", file, pageNo, FALSE, "returned", a.frame,
                               a.io \o <<IoAlloc(file, pageNo)>>)
       ELSE /\ bufDescTable' = a.desc
            /\ hashTable' = a.hash
            /\ clockHand' = a.clock
            /\ last' = Call("allocPage", file, NoPage, FALSE, "BufferExceeded", NoFrame, a.io)
            /\ UNCHANGED <<bufPool, pageStore>>

\* ---- BufMgr::flushFile ----
\* The loop without its write-back of dirty frames.
RECURSIVE flushLoopUnwritten(_, _, _, _, _, _)
flushLoopUnwritten(id, file, d, h, pool, io) ==
    IF ~(id < NumBufs)
    THEN [status |-> "returned", desc |-> d, hash |-> h, io |-> io, frame |-> NoFrame]
    ELSE IF d[id].file = file
    THEN IF d[id].pinCnt # 0
         THEN [status |-> "PagePinned", desc |-> d, hash |-> h, io |-> io, frame |-> id]
         ELSE IF d[id].valid = FALSE
         THEN [status |-> "BadBuffer", desc |-> d, hash |-> h, io |-> io, frame |-> id]
         ELSE flushLoopUnwritten(id + 1, file,
                                 [d EXCEPT ![id] = Clear(d[id])],
                                 HashRemove(h, file, d[id].pageNo),
                                 pool, io)
    ELSE flushLoopUnwritten(id + 1, file, d, h, pool, io)

RECURSIVE flushLoop(_, _, _, _, _, _)
flushLoop(id, file, d, h, pool, io) ==
    IF ~(id < NumBufs)
    THEN [status |-> "returned", desc |-> d, hash |-> h, io |-> io, frame |-> NoFrame]
    ELSE IF d[id].file = file
    THEN IF d[id].pinCnt # 0
         THEN [status |-> "PagePinned", desc |-> d, hash |-> h, io |-> io, frame |-> id]
         ELSE IF d[id].valid = FALSE
         THEN [status |-> "BadBuffer", desc |-> d, hash |-> h, io |-> io, frame |-> id]
         ELSE flushLoop(id + 1, file,
                        [d EXCEPT ![id] = Clear(d[id])],
                        HashRemove(h, file, d[id].pageNo),
                        pool,
                        IF d[id].dirty # FALSE
                        THEN Append(io, IoWrite(d[id].file, pool[id]))
                        ELSE io)
    ELSE flushLoop(id + 1, file, d, h, pool, io)

flushFile(file) ==
    LET r == flushLoop(0, file, bufDescTable, hashTable, bufPool, <<>>)
    IN /\ bufDescTable' = r.desc
       /\ hashTable' = r.hash
       /\ last' = Call("flushFile", file, NoPage, FALSE, r.status, r.frame, r.io)
       /\ UNCHANGED <<bufPool, clockHand, pageStore>>

\* ---- BufMgr::disposePage ----
\* disposePage without the clear() of the frame it finds.
disposePageUncleared(file, PageNo) ==
    /\ <<file, PageNo>> \in pageStore
    /\ LET frame == HashLookup(hashTable, file, PageNo)
       IN /\ IF frame # NoFrame
             THEN /\ hashTable' = HashRemove(hashTable, file, PageNo)
                  /\ UNCHANGED bufDescTable
             ELSE UNCHANGED <<bufDescTable, hashTable>>
          /\ last' = Call("disposePage", file, PageNo, FALSE, "returned", frame,
                          <<IoDelete(file, PageNo)>>)
    /\ pageStore' = pageStore \ {<<file, PageNo>>}
    /\ UNCHANGED <<bufPool, clockHand>>

disposePage(file, PageNo) ==
    /\ <<file, PageNo>> \in pageStore
    /\ LET frame == HashLookup(hashTable, file, PageNo)
       IN /\ IF frame # NoFrame
             THEN /\ bufDescTable' = [bufDescTable EXCEPT ![frame] = Clear(@)]
                  /\ hashTable' = HashRemove(hashTable, file, PageNo)
             ELSE UNCHANGED <<bufDescTable, hashTable>>
          /\ last' = Call("disposePage", file, PageNo, FALSE, "returned", frame,
                          <<IoDelete(file, PageNo)>>)
    /\ pageStore' = pageStore \ {<<file, PageNo>>}
    /\ UNCHANGED <<bufPool, clockHand>>

\* ---- every call a client can make ----
\* Spec takes every call as one step and leaves the history variable alone.
Next ==
    \/ \E file \in Files, pageNo \in Pages :
          readPage(file, pageNo) /\ UNCHANGED <<obs, sweep>>
    \/ \E file \in Files, pageNo \in Pages, dirty \in BOOLEAN :
          unPinPage(file, pageNo, dirty) /\ UNCHANGED <<obs, sweep>>
    \/ \E file \in Files : allocPage(file) /\ UNCHANGED <<obs, sweep>>
    \/ \E file \in Files : flushFile(file) /\ UNCHANGED <<obs, sweep>>
    \/ \E file \in Files, PageNo \in Pages :
          disposePage(file, PageNo) /\ UNCHANGED <<obs, sweep>>

Spec == Init /\ [][Next]_vars

\* The same calls, with the history variable following the reads of one page.
Watch ==
    /\ obs' = Observe(obs, bufDescTable, last', bufDescTable')
    /\ UNCHANGED sweep

NextObs ==
    \/ \E file \in Files, pageNo \in Pages : readPage(file, pageNo) /\ Watch
    \/ \E file \in Files, pageNo \in Pages, dirty \in BOOLEAN :
          unPinPage(file, pageNo, dirty) /\ Watch
    \/ \E file \in Files : allocPage(file) /\ Watch
    \/ \E file \in Files : flushFile(file) /\ Watch
    \/ \E file \in Files, PageNo \in Pages : disposePage(file, PageNo) /\ Watch

SpecObs == Init /\ [][NextObs]_vars

\* ---- BufMgr::allocBuf, one loop iteration at a time ----
\* The pool states a call of allocBuf can find: every frame free, or holding
\* a page of its own with any refbit, dirty bit and pin count, or cleared and
\* then pinned again through a hash entry that outlived its page; every
\* resident page hashed to its frame; the cursor anywhere.
DescStates ==
    {FreeDesc}
    \cup {d \in [valid : {TRUE}, refbit : BOOLEAN, dirty : BOOLEAN,
                 pinCnt : 0 .. MaxPin, file : Files, pageNo : Pages] :
             <<d.file, d.pageNo>> \in PageIds}
    \cup [valid : {FALSE}, refbit : {TRUE}, dirty : BOOLEAN,
          pinCnt : 0 .. MaxPin, file : {NoFile}, pageNo : {NoPage}]

InitSweep ==
    /\ bufDescTable \in [Frames -> DescStates]
    /\ \A f, g \in Frames :
          (/\ bufDescTable[f].valid
           /\ bufDescTable[g].valid
           /\ bufDescTable[f].file = bufDescTable[g].file
           /\ bufDescTable[f].pageNo = bufDescTable[g].pageNo) => f = g
    /\ bufPool = [f \in Frames |-> bufDescTable[f].pageNo]
    /\ hashTable =
          [k \in PageIds |->
             IF \E f \in Frames : HoldsDesc(bufDescTable[f], k)
             THEN CHOOSE f \in Frames : HoldsDesc(bufDescTable[f], k)
             ELSE NoFrame]
    /\ clockHand \in Frames
    /\ pageStore = PageIds
    /\ obs = NoObs
    /\ last = Call("init", NoFile, NoPage, FALSE, "returned", NoFrame, <<>>)
    /\ sweep = [NoSweep EXCEPT !.pc = "loop"]

\* A caller enters allocBuf: frame_count = 0, the cursor where it was left.
Begin ==
    /\ sweep.pc \in {"idle", "exceeded"}
    /\ sweep' = [NoSweep EXCEPT !.pc = "loop"]
    /\ UNCHANGED <<bufDescTable, bufPool, hashTable, clockHand, pageStore,
                   last, obs>>

\* The loop condition fails: alloc is still false, BufferExceededException.
LoopExit ==
    /\ sweep.pc = "loop"
    /\ ~(sweep.frame_count <= NumBufs)
    /\ sweep' = [sweep EXCEPT !.pc = "exceeded"]
    /\ UNCHANGED <<bufDescTable, bufPool, hashTable, clockHand, pageStore,
                   last, obs>>

\* The frame under the cursor is not valid: it is returned.
ClaimFree ==
    /\ sweep.pc = "loop"
    /\ sweep.frame_count <= NumBufs
    /\ bufDescTable[clockHand].valid = FALSE
    /\ sweep' = [sweep EXCEPT !.pc = "returned", !.frame = clockHand]
    /\ UNCHANGED <<bufDescTable, bufPool, hashTable, clockHand, pageStore,
                   last, obs>>

\* The frame is valid and its refbit set: clear it, advance, count.
ClearRefbit ==
    /\ sweep.pc = "loop"
    /\ sweep.frame_count <= NumBufs
    /\ bufDescTable[clockHand].valid
    /\ bufDescTable[clockHand].refbit
    /\ bufDescTable' = [bufDescTable EXCEPT ![clockHand].refbit = FALSE]
    /\ clockHand' = advanceClock(clockHand)
    /\ sweep' = [sweep EXCEPT !.frame_count = @ + 1]
    /\ UNCHANGED <<bufPool, hashTable, pageStore, last, obs>>

\* The pinned-frame branch without its frame_count++.
SkipPinnedUncounted ==
    /\ sweep.pc = "loop"
    /\ sweep.frame_count <= NumBufs
    /\ bufDescTable[clockHand].valid
    /\ ~bufDescTable[clockHand].refbit
    /\ bufDescTable[clockHand].pinCnt # 0
    /\ clockHand' = advanceClock(clockHand)
    /\ UNCHANGED <<bufDescTable, bufPool, hashTable, pageStore, last, obs,
                   sweep>>

\* The frame is valid, refbit clear, pinned: advance, count.
SkipPinned ==
    /\ sweep.pc = "loop"
    /\ sweep.frame_count <= NumBufs
    /\ bufDescTable[clockHand].valid
    /\ ~bufDescTable[clockHand].refbit
    /\ bufDescTable[clockHand].pinCnt # 0
    /\ clockHand' = advanceClock(clockHand)
    /\ sweep' = [sweep EXCEPT !.frame_count = @ + 1]
    /\ UNCHANGED <<bufDescTable, bufPool, hashTable, pageStore, last, obs>>

\* The frame is valid, refbit clear, unpinned: it is the victim.
TakeVictim ==
    /\ sweep.pc = "loop"
    /\ sweep.frame_count <= NumBufs
    /\ bufDescTable[clockHand].valid
    /\ ~bufDescTable[clockHand].refbit
    /\ bufDescTable[clockHand].pinCnt = 0
    /\ LET e == EvictVictim(bufDescTable, hashTable, bufPool, clockHand)
       IN /\ bufDescTable' = e.desc
          /\ hashTable' = e.hash
          /\ sweep' = [sweep EXCEPT !.pc = "returned", !.frame = clockHand,
                                    !.io = e.io]
    /\ UNCHANGED <<bufPool, clockHand, pageStore, last, obs>>

\* The caller fills the frame it was handed (the miss path of readPage, the
\* tail of allocPage) with a page the hash table does not hold.
FillFrame ==
    /\ sweep.pc = "returned"
    /\ \E id \in PageIds :
          /\ HashLookup(hashTable, id[1], id[2]) = NoFrame
          /\ bufPool' = [bufPool EXCEPT ![sweep.frame] = id[2]]
          /\ hashTable' = HashInsert(hashTable, id[1], id[2], sweep.frame)
          /\ bufDescTable' = [bufDescTable EXCEPT
                                 ![sweep.frame] = Set(id[1], id[2])]
    /\ sweep' = NoSweep
    /\ UNCHANGED <<clockHand, pageStore, last, obs>>

\* One iteration of the while loop, or its exit.
SweepStep ==
    \/ LoopExit
    \/ ClaimFree
    \/ ClearRefbit
    \/ SkipPinned
    \/ TakeVictim

NextSweep ==
    \/ Begin
    \/ LoopExit
    \/ ClaimFree
    \/ ClearRefbit
    \/ SkipPinned
    \/ TakeVictim
    \/ FillFrame

\* The code runs its loop: an enabled iteration is eventually executed.
SpecSweep == InitSweep /\ [][NextSweep]_vars /\ WF_vars(SweepStep)


\* ---- reading the record of a call ----
\* The call ran allocBuf and received a frame from it.
HandedOut(l) ==
    \/ l.op = "readPage" /\ l.frame # NoFrame /\ l.io # <<>>
    \/ l.op = "allocPage" /\ l.status = "returned"

\* The call ran allocBuf and allocBuf threw BufferExceededException.
AllocFailed(l) ==
    \/ l.op = "readPage" /\ l.frame = NoFrame
    \/ l.op = "allocPage" /\ l.status = "BufferExceeded"

\* The Page Store call that fills the frame of a read miss or an allocPage.
Fill(l) ==
    IF l.op = "readPage" THEN IoRead(l.file, l.page) ELSE IoAlloc(l.file, l.page)

HoldsPage(d, f, file, pageNo) ==
    d[f].valid /\ d[f].file = file /\ d[f].pageNo = pageNo

\* ---- claims ----

\* C1: allocBuf never hands out a frame whose pinCnt is above 0: the frame a
\* read miss or an allocPage receives had pinCnt = 0 before the call.
C1_NeverPinnedVictim ==
    [][HandedOut(last') => bufDescTable[last'.frame].pinCnt = 0]_vars

\* C2: after every call the hash table and the descriptor table agree: a
\* (file, page) has an entry iff some descriptor is valid with that identity,
\* and the entry is that descriptor's frame.
C2_IndexConsistent ==
    \A k \in PageIds :
        /\ (hashTable[k] # NoFrame) <=>
              (\E f \in Frames : HoldsPage(bufDescTable, f, k[1], k[2]))
        /\ hashTable[k] # NoFrame =>
              HoldsPage(bufDescTable, hashTable[k], k[1], k[2])

\* C3: whenever readPage(file, p) returns a handle, the frame of the handle is
\* valid and its descriptor's identity is (file, p).
C3_HandleIsThePage ==
    (last.op = "readPage" /\ last.frame # NoFrame) =>
        HoldsPage(bufDescTable, last.frame, last.file, last.page)

\* C4: a readPage whose frame allocation failed leaves with BufferExceeded;
\* it does not return normally.
C4_ReadReportsExceeded ==
    (last.op = "readPage" /\ AllocFailed(last)) => last.status = "BufferExceeded"

\* C5: allocBuf fails exactly when no frame can be freed: a failure means
\* every frame was valid and pinned, and a success means some frame was free
\* or unpinned.
C5_ExceededIffAllPinned ==
    [][/\ AllocFailed(last') =>
            \A f \in Frames : bufDescTable[f].valid /\ bufDescTable[f].pinCnt > 0
       /\ HandedOut(last') =>
            \E f \in Frames : ~bufDescTable[f].valid \/ bufDescTable[f].pinCnt = 0
      ]_vars

\* C6: a flushFile that fails with PagePinned leaves every frame of the file
\* as it was: nothing written, no descriptor reset, no hash entry removed.
C6_PinnedFlushChangesNothing ==
    [][(last'.op = "flushFile" /\ last'.status = "PagePinned") =>
          /\ last'.io = <<>>
          /\ hashTable' = hashTable
          /\ \A f \in Frames :
                bufDescTable[f].file = last'.file => bufDescTable'[f] = bufDescTable[f]
      ]_vars

\* C7: a read miss or an allocPage that evicts a valid dirty page makes
\* exactly one Page Store write, of that page, before the call that fills the
\* frame; evicting a clean page makes no write.
C7_DirtyVictimWrittenOnce ==
    [][(HandedOut(last') /\ bufDescTable[last'.frame].valid) =>
          LET v == bufDescTable[last'.frame]
          IN IF v.dirty
             THEN last'.io = <<IoWrite(v.file, v.pageNo), Fill(last')>>
             ELSE last'.io = <<Fill(last')>>
      ]_vars

\* C7 witness: a read miss has just evicted a dirty page.
C7_Witness ==
    /\ last.op = "readPage"
    /\ Len(last.io) = 2
    /\ last.io[1][1] = "write"
    /\ last.io[2] = IoRead(last.file, last.page)

\* C8: unPinPage on a resident page with pinCnt = 0 fails with PageNotPinned
\* and changes no descriptor; with pinCnt > 0 it lowers that page's pinCnt by
\* exactly 1, sets dirty when asked to and leaves dirty as it was otherwise.
C8_UnPinResident ==
    [][\A f \in Frames :
          (last'.op = "unPinPage" /\ HoldsPage(bufDescTable, f, last'.file, last'.page)) =>
             IF bufDescTable[f].pinCnt = 0
             THEN /\ last'.status = "PageNotPinned"
                  /\ bufDescTable' = bufDescTable
             ELSE /\ last'.status = "returned"
                  /\ bufDescTable'[f].pinCnt = bufDescTable[f].pinCnt - 1
                  /\ bufDescTable'[f].dirty = (bufDescTable[f].dirty \/ last'.dirty)
                  /\ \A g \in Frames \ {f} : bufDescTable'[g] = bufDescTable[g]
      ]_vars

\* C8 witness: an unPinPage without markDirty has just lowered the pin count
\* of a resident page that was already dirty.
C8_Witness ==
    /\ last.op = "unPinPage"
    /\ last.status = "returned"
    /\ last.frame # NoFrame
    /\ ~last.dirty
    /\ HoldsPage(bufDescTable, last.frame, last.file, last.page)
    /\ bufDescTable[last.frame].dirty

\* C9: unPinPage for a page with no hash entry is surfaced as an error: it
\* does not return normally.
C9_UnPinAbsentSurfaced ==
    (last.op = "unPinPage" /\ last.frame = NoFrame) => last.status # "returned"

\* C10: two readPage calls for one page that nobody held pinned, with only
\* reads and allocations of other pages in between, return the same frame and
\* leave its pinCnt at 2.
C10_TwoReadsPinTwo ==
    obs.reads = 2 => (obs.same /\ bufDescTable[obs.frame].pinCnt = 2)

\* C11: whenever allocPage succeeds, the frame of its handle is valid with
\* pinCnt 1, dirty clear, refbit set and the identity (file, new page number),
\* and the hash table maps that identity to the frame.
C11_AllocPageFrame ==
    (last.op = "allocPage" /\ last.status = "returned") =>
        /\ last.frame \in Frames
        /\ bufDescTable[last.frame] =
              [valid |-> TRUE, refbit |-> TRUE, dirty |-> FALSE, pinCnt |-> 1,
               file |-> last.file, pageNo |-> last.page]
        /\ hashTable[<<last.file, last.page>>] = last.frame

\* C11 witness: an allocPage has just succeeded by evicting a page, the other
\* frame being pinned.
C11_Witness ==
    /\ last.op = "allocPage"
    /\ last.status = "returned"
    /\ Len(last.io) = 2
    /\ \E f \in Frames \ {last.frame} : bufDescTable[f].pinCnt > 0

\* The Page Store writes of page (file, pageNo) among the calls io.
Writes(io, file, pageNo) ==
    Cardinality({i \in 1 .. Len(io) : io[i] = IoWrite(file, pageNo)})

\* C12: after a successful flushFile(file), every frame of the file that was
\* dirty has been written exactly once by the call and every clean one not at
\* all, every frame of the file is free, and the hash entries of their pages
\* are removed; the call makes no other Page Store call.
C12_FlushWritesAndFrees ==
    [][(last'.op = "flushFile" /\ last'.status = "returned") =>
          /\ \A f \in Frames :
                bufDescTable[f].file = last'.file =>
                   /\ Writes(last'.io, last'.file, bufDescTable[f].pageNo)
                        = IF bufDescTable[f].dirty THEN 1 ELSE 0
                   /\ bufDescTable'[f] = FreeDesc
                   /\ hashTable'[<<last'.file, bufDescTable[f].pageNo>>] = NoFrame
          /\ Len(last'.io) = Cardinality({f \in Frames :
                                 bufDescTable[f].file = last'.file /\ bufDescTable[f].dirty})
      ]_vars

\* C12 witness: a flushFile has just succeeded on a file with two dirty
\* frames, writing both and freeing both.
C12_Witness ==
    /\ last.op = "flushFile"
    /\ last.status = "returned"
    /\ Len(last.io) = 2
    /\ last.io[1] # last.io[2]
    /\ \A f \in Frames : bufDescTable[f] = FreeDesc

\* C13: disposePage(file, p) returns normally and makes exactly the Page Store
\* call that deletes page p, cached or not; afterwards no descriptor is valid
\* with identity (file, p), the hash table has no entry for it and the page is
\* gone from the Page Store.
C13_DisposeRemovesPage ==
    last.op = "disposePage" =>
        /\ last.status = "returned"
        /\ last.io = <<IoDelete(last.file, last.page)>>
        /\ \A f \in Frames : ~HoldsPage(bufDescTable, f, last.file, last.page)
        /\ hashTable[<<last.file, last.page>>] = NoFrame
        /\ <<last.file, last.page>> \notin pageStore

\* C13 witness: a disposePage has just removed a page that had a hash entry,
\* while the other frame holds a page.
C13_Witness ==
    /\ last.op = "disposePage"
    /\ last.frame # NoFrame
    /\ bufDescTable[last.frame] = FreeDesc
    /\ \E f \in Frames \ {last.frame} : bufDescTable[f].valid

\* C14: every descriptor that is not valid has pinCnt 0 and dirty clear.
C14_FreeFrameCarriesNothing ==
    \A f \in Frames :
        ~bufDescTable[f].valid =>
            (bufDescTable[f].pinCnt = 0 /\ bufDescTable[f].dirty = FALSE)

\* C15: at most one descriptor is valid for any (file, page).
C15_OneFramePerPage ==
    \A f, g \in Frames :
        ( /\ bufDescTable[f].valid
          /\ bufDescTable[g].valid
          /\ bufDescTable[f].file = bufDescTable[g].file
          /\ bufDescTable[f].pageNo = bufDescTable[g].pageNo ) => f = g

\* C15 witness: a readPage has just missed and brought its page in while the
\* other frame holds a page of the same file.
C15_Witness ==
    /\ last.op = "readPage"
    /\ last.frame # NoFrame
    /\ last.io # <<>>
    /\ HoldsPage(bufDescTable, last.frame, last.file, last.page)
    /\ \E g \in Frames \ {last.frame} :
          bufDescTable[g].valid /\ bufDescTable[g].file = last.file

\* C16: pinCnt is never negative, and a call changes a frame's pinCnt only by
\* +1 in readPage, from 0 to 1 in allocPage and by -1 in unPinPage: flushFile,
\* disposePage and the eviction inside readPage or allocPage change no
\* pinCnt that is not 0.
C16_PinChangesOnlyByPinning ==
    [][\A f \in Frames :
          /\ bufDescTable'[f].pinCnt >= 0
          /\ bufDescTable'[f].pinCnt # bufDescTable[f].pinCnt =>
                \/ /\ last'.op = "readPage"
                   /\ bufDescTable'[f].pinCnt = bufDescTable[f].pinCnt + 1
                \/ /\ last'.op = "allocPage"
                   /\ bufDescTable[f].pinCnt = 0
                   /\ bufDescTable'[f].pinCnt = 1
                \/ /\ last'.op = "unPinPage"
                   /\ bufDescTable'[f].pinCnt = bufDescTable[f].pinCnt - 1
      ]_vars

\* C17: when allocBuf evicts a valid frame, dirty or clean, the hash table
\* holds no entry for the evicted page after the call.
C17_EvictionUnhashes ==
    [][(HandedOut(last') /\ bufDescTable[last'.frame].valid) =>
          hashTable'[<<bufDescTable[last'.frame].file,
                       bufDescTable[last'.frame].pageNo>>] = NoFrame
      ]_vars

\* C18: a valid frame whose refbit is set is not evicted on the visit that
\* finds the bit set.  Every valid frame allocBuf evicts had pinCnt 0; if its
\* refbit was set when the call began, the sweep cleared it and came back to
\* it, which it does only after passing every other frame as busy (valid, and
\* refbit set or pinned) and clearing their refbits.  A readPage hit sets the
\* refbit again, so the page is passed over at the next visit too.
Busy(desc) == desc.valid /\ (desc.refbit \/ desc.pinCnt > 0)

C18_SecondChance ==
    [][/\ (HandedOut(last') /\ bufDescTable[last'.frame].valid) =>
            /\ bufDescTable[last'.frame].pinCnt = 0
            /\ bufDescTable[last'.frame].refbit =>
                  \A g \in Frames \ {last'.frame} :
                      /\ Busy(bufDescTable[g])
                      /\ bufDescTable'[g] = [bufDescTable[g] EXCEPT !.refbit = FALSE]
       /\ (last'.op = "readPage" /\ last'.frame # NoFrame /\ last'.io = <<>>) =>
            bufDescTable'[last'.frame].refbit = TRUE
      ]_vars

\* C18 witness: an allocPage has just evicted a dirty page while the other
\* frame, unpinned and valid, was passed over and has its refbit clear.
C18_Witness ==
    /\ last.op = "allocPage"
    /\ last.status = "returned"
    /\ Len(last.io) = 2
    /\ clockHand = last.frame
    /\ \E g \in Frames \ {last.frame} :
          /\ bufDescTable[g].valid
          /\ bufDescTable[g].pinCnt = 0
          /\ ~bufDescTable[g].refbit

\* C20: every call of allocBuf terminates, whatever the pool state and the
\* cursor position.  It leaves its loop either with the frame under the
\* cursor, having counted at most NumBufs busy visits, or with BufferExceeded
\* when frame_count has just passed NumBufs; frame_count goes up by one
\* exactly at the visits that clear a refbit or skip a pinned frame, each of
\* which advances the cursor by one; and outside the loop the cursor does not
\* move, so the next call starts where this one stopped.
BusyVisit ==
    /\ bufDescTable[clockHand].valid
    /\ bufDescTable[clockHand].refbit \/ bufDescTable[clockHand].pinCnt > 0

C20_AllocBufTerminates ==
    /\ (sweep.pc = "loop") ~> (sweep.pc \in {"returned", "exceeded"})
    /\ [](sweep.pc = "returned" =>
            /\ sweep.frame \in Frames
            /\ sweep.frame = clockHand
            /\ sweep.frame_count <= NumBufs)
    /\ [](sweep.pc = "exceeded" =>
            /\ sweep.frame = NoFrame
            /\ sweep.frame_count = NumBufs + 1)
    /\ [][sweep.pc = "loop" =>
            /\ (sweep'.frame_count = sweep.frame_count + 1) <=>
                  (BusyVisit /\ sweep.frame_count <= NumBufs)
            /\ sweep'.frame_count \in {sweep.frame_count, sweep.frame_count + 1}
            /\ clockHand' = IF sweep'.frame_count = sweep.frame_count
                            THEN clockHand
                            ELSE advanceClock(clockHand)]_vars
    /\ [][sweep.pc # "loop" => clockHand' = clockHand]_vars

\* C20 witness: a call has ended with BufferExceeded after NumBufs + 1 busy
\* visits, the cursor one frame past where the call found it.
C20_Witness ==
    /\ sweep.pc = "exceeded"
    /\ sweep.frame_count = NumBufs + 1
    /\ \A f \in Frames : bufDescTable[f].valid /\ ~bufDescTable[f].refbit

\* C19: unPinPage(file, p, _) and disposePage(file, p) leave the descriptor of
\* every frame that holds another page, and the hash entry of every other
\* page, as they were.
C19_OnlyThePageFrame ==
    [][last'.op \in {"unPinPage", "disposePage"} =>
          /\ \A f \in Frames :
                ( /\ bufDescTable[f].valid
                  /\ ~HoldsPage(bufDescTable, f, last'.file, last'.page) )
                   => bufDescTable'[f] = bufDescTable[f]
          /\ \A k \in PageIds \ {<<last'.file, last'.page>>} :
                hashTable'[k] = hashTable[k]
      ]_vars

\* ---- sanity of the model ----
\* The loop followed step by step ends where the operator allocBufLoop says:
\* what remains of the sweep is the same before and after every iteration.
SweepIsAllocBuf ==
    [][sweep.pc = "loop" =>
         LET r == allocBufLoop(bufDescTable, hashTable, bufPool, clockHand,
                               sweep.frame_count)
         IN IF sweep'.pc = "loop"
            THEN r = allocBufLoop(bufDescTable', hashTable', bufPool',
                                  clockHand', sweep'.frame_count)
            ELSE /\ r.ok = (sweep'.pc = "returned")
                 /\ r.frame = sweep'.frame
                 /\ r.desc = bufDescTable'
                 /\ r.hash = hashTable'
                 /\ r.clock = clockHand'
                 /\ r.io = sweep'.io]_vars

TypeOK ==
    /\ clockHand \in Frames
    /\ pageStore \subseteq PageIds
    /\ \A f \in Frames : bufDescTable[f].pinCnt \in 0 .. MaxPin
    /\ \A k \in PageIds : hashTable[k] \in Frames \cup {NoFrame}

\* The hash table calls the code makes never meet the cases BufHashTbl
\* answers with an exception of its own: every valid descriptor is hashed
\* under its identity (so remove finds its entry), only pages of the Page
\* Store are hashed (so insert of a fresh page finds no entry), and a valid
\* frame holds the Page object of its descriptor's page.
HashCallsDefined ==
    /\ \A f \in Frames :
          bufDescTable[f].valid =>
             /\ <<bufDescTable[f].file, bufDescTable[f].pageNo>> \in PageIds
             /\ hashTable[<<bufDescTable[f].file, bufDescTable[f].pageNo>>] = f
             /\ bufPool[f] = bufDescTable[f].pageNo
    /\ \A k \in PageIds : hashTable[k] # NoFrame => k \in pageStore
====
